---- MODULE Spec2Model ----
\* Forecast pipeline of the stock dashboard: model.py (train_svr_model,
\* create_forecast) and the forecast callback of app.py (forecast_stock).
\*
\* Numbers: prices are integers; a pandas Timestamp of a daily bar is its day
\* count since 1970-01-01; a value of the numeric "forecast-days" input is kept
\* in halves (3 stands for 1.5) so that int() has something to truncate.
\* The regressor (scikit-learn) is not modelled numerically: the fitted
\* predictor is any member of a small family of lines, and the selected
\* hyper-parameters are any candidate of the searched grid.
EXTENDS Integers, Sequences, FiniteSets, TLC

------------------------------------------------------------------------------
\* Bounds of the model.

NumRequests == 2
MaxRows == 11
MaxHalves == 5

\* Program constants.

EpochOrdinal == 719163
LoadThreshold == 80
TestTenths == 1
CvFolds == 5

------------------------------------------------------------------------------
\* Python values.

None == [none |-> TRUE, v |-> 0]
Some(x) == [none |-> FALSE, v |-> x]
NoneStr == [none |-> TRUE, v |-> ""]

\* bool(x) of an optional number / of an optional string.
Truthy(o) == ~o.none /\ o.v # 0
TruthyStr(o) == ~o.none /\ o.v # ""

\* int(x) of a number kept in halves: truncation towards zero.
IntOf(h) == IF h >= 0 THEN h \div 2 ELSE -((-h) \div 2)

\* Timestamp.toordinal(): proleptic Gregorian ordinal of the timestamp's day.
toordinal(d) == d + EpochOrdinal

\* Monday = 0 ... Sunday = 6, of a timestamp.
weekday(d) == (toordinal(d) - 1) % 7

\* An outcome of a call: a value, or the exception it raised.
Ok(x) == [raised |-> "", value |-> x]
Raise(kind) == [raised |-> kind, value |-> <<>>]

------------------------------------------------------------------------------
\* The market data provider: one year of daily bars is a run of consecutive
\* trading days (Monday to Friday), one close per day.

RECURSIVE TradingDays(_, _)
TradingDays(start, n) ==
  IF n = 0 THEN <<>>
  ELSE IF weekday(start) >= 5 THEN TradingDays(start + 1, n)
  ELSE <<start>> \o TradingDays(start + 1, n - 1)

ClosePrice(i, pat) == 100 + ((i * pat) % 7)

Bars(start, n, pat) ==
  LET days == TradingDays(start, n)
  IN [i \in 1..n |-> [Date |-> days[i], Close |-> ClosePrice(i, pat)]]

------------------------------------------------------------------------------
\* train_test_split(X, y, test_size=0.1, shuffle=False):
\* n_test = ceil(test_size * n), n_train = n - n_test, an empty training set
\* is an error; the rows are cut in order, nothing is permuted.

\* The fractions taken the other way round: test_size = 0.9.
NTest_swapped(n) == (n * (10 - TestTenths) + 9) \div 10

NTest(n) == (n * TestTenths + 9) \div 10

\* The held-out rows taken from the front of the series.
train_test_split_testFirst(rows) ==
  LET n == Len(rows)
      n_test == (n * TestTenths + 9) \div 10
  IN IF n - n_test = 0 THEN Raise("ValueError:split")
     ELSE Ok([train |-> SubSeq(rows, n_test + 1, n),
              test |-> SubSeq(rows, 1, n_test)])

train_test_split(rows) ==
  LET n == Len(rows)
      n_test == NTest(n)
      n_train == n - n_test
  IN IF n_train = 0 THEN Raise("ValueError:split")
     ELSE Ok([train |-> SubSeq(rows, 1, n_train),
              test |-> SubSeq(rows, n_train + 1, n)])

------------------------------------------------------------------------------
\* The two hyper-parameter grids and the choice between them (cpu_load is a
\* percentage with one decimal, kept in tenths of a percent).

ReducedGrid ==
  [C |-> {"1", "10"}, epsilon |-> {"0.1", "0.5"}, gamma |-> {"scale", "0.1"}]

FullGrid ==
  [C |-> {"0.1", "1", "10", "100"},
   epsilon |-> {"0.01", "0.1", "0.5", "1"},
   gamma |-> {"scale", "auto", "0.01", "0.1", "1"}]

\* The comparison written >= instead of >.
SelectGrid_atLeast(cpu_load) ==
  IF cpu_load >= LoadThreshold * 10 THEN ReducedGrid ELSE FullGrid

SelectGrid(cpu_load) ==
  IF cpu_load > LoadThreshold * 10 THEN ReducedGrid ELSE FullGrid

\* ParameterGrid(param_grid): every combination, each evaluated by the search.
ParameterGrid(g) == [C : g.C, epsilon : g.epsilon, gamma : g.gamma]

------------------------------------------------------------------------------
\* The fitted regressor (grid.best_estimator_): the selected combination and a
\* line through the training data standing for the fitted curve.

Slopes == {-1, 0, 2}

PredictAt(model, x) == model.level + model.slope * (x - model.x0)

\* model.predict(X): scikit-learn validates X first and rejects an input with
\* no rows; otherwise one prediction per row, the model is left as it was.
predict(model, X) ==
  IF Len(X) = 0 THEN Raise("ValueError:predict")
  ELSE Ok([i \in 1..Len(X) |-> PredictAt(model, X[i])])

Abs(x) == IF x < 0 THEN -x ELSE x

RECURSIVE SumSeq(_)
SumSeq(s) == IF Len(s) = 0 THEN 0 ELSE s[1] + SumSeq(Tail(s))

\* Means are kept as fractions num/den.
mean_squared_error(y_true, y_pred) ==
  [num |-> SumSeq([i \in 1..Len(y_true) |->
                     (y_true[i] - y_pred[i]) * (y_true[i] - y_pred[i])]),
   den |-> Len(y_true)]

mean_absolute_error(y_true, y_pred) ==
  [num |-> SumSeq([i \in 1..Len(y_true) |-> Abs(y_true[i] - y_pred[i])]),
   den |-> Len(y_true)]

NoMetric == [num |-> 0, den |-> 0]
NoModel == [fitted |-> FALSE, params |-> [C |-> "", epsilon |-> "", gamma |-> ""],
            level |-> 0, slope |-> 0, x0 |-> 0]

\* GridSearchCV(regressor, param_grid, cv=5).fit(X_train, y_train): the 5-fold
\* splitter refuses fewer samples than folds; otherwise every combination of
\* the grid is evaluated and the best one is refitted on the training rows.
\* The set of outcomes the search can have.
GridSearchCV_fit(param_grid, train) ==
  IF Len(train) < CvFolds THEN {Raise("ValueError:cv")}
  ELSE {Ok([fitted |-> TRUE, params |-> p, level |-> train[1].Close,
            slope |-> s, x0 |-> train[1].Date_numeric]) :
          p \in ParameterGrid(param_grid), s \in Slopes}

\* Lines 60-62: the metrics of the model on the held-out rows.
Evaluate(model, test) ==
  LET y_test == [i \in 1..Len(test) |-> test[i].Close]
      y_pred == predict(model, [i \in 1..Len(test) |-> test[i].Date_numeric]).value
  IN [mse |-> mean_squared_error(y_test, y_pred),
      mae |-> mean_absolute_error(y_test, y_pred)]

------------------------------------------------------------------------------
\* create_forecast(model, df, forecast_days). Python passes model and df by
\* reference, so the outcome carries them as the call leaves them, and the
\* number of fetches and load-sensor queries the call made.

\* range(0, forecast_days): the series starts on the last known date.
FutureDates_fromLast(last_date, forecast_days) ==
  [i \in 1..forecast_days |-> last_date + i - 1]

FutureDates(last_date, forecast_days) ==
  [i \in 1..forecast_days |-> last_date + i]

\* The forecast rows appended to the history frame handed in.
create_forecast_appending(model, df, forecast_days) ==
  LET last_date == df[Len(df)].Date
      future_dates == FutureDates(last_date, forecast_days)
      future_dates_numeric == [i \in 1..Len(future_dates) |-> toordinal(future_dates[i])]
      predictions == predict(model, future_dates_numeric)
  IN [ret |-> IF predictions.raised # "" THEN Raise(predictions.raised)
              ELSE Ok([i \in 1..Len(future_dates) |->
                         [Date |-> future_dates[i],
                          Predicted |-> predictions.value[i]]]),
      model |-> model,
      df |-> IF predictions.raised # "" THEN df
             ELSE df \o [i \in 1..Len(future_dates) |->
                           [Date |-> future_dates[i],
                            Close |-> predictions.value[i],
                            Date_numeric |-> future_dates_numeric[i]]],
      fetched |-> 0, sensed |-> 0]

create_forecast(model, df, forecast_days) ==
  LET last_date == df[Len(df)].Date
      future_dates == FutureDates(last_date, forecast_days)
      future_dates_numeric == [i \in 1..Len(future_dates) |-> toordinal(future_dates[i])]
      predictions == predict(model, future_dates_numeric)
  IN [ret |-> IF predictions.raised # "" THEN Raise(predictions.raised)
              ELSE Ok([i \in 1..Len(future_dates) |->
                         [Date |-> future_dates[i],
                          Predicted |-> predictions.value[i]]]),
      model |-> model, df |-> df, fetched |-> 0, sensed |-> 0]

------------------------------------------------------------------------------
\* State. Every variable but stdout is a function of the request: the locals
\* of that request's forecast_stock / train_svr_model / create_forecast frames.

VARIABLES
  pc,           \* where the callback stands: idle, fetch, sense, search, forecast, done
  args,         \* n_clicks, stock_code, forecast_days of the callback
  df,           \* the frame of train_svr_model: rows Date, Close, Date_numeric
  split,        \* X_train/y_train and X_test/y_test, as rows
  cpu_load,     \* the reading of psutil.cpu_percent, -1 before it is taken
  param_grid,   \* the grid handed to GridSearchCV
  searched,     \* the combinations the search evaluated
  fitted,       \* best_model, mse, mae as train_svr_model returns them
  raised,       \* the exception the core raised to the callback, "" if none
  out,          \* what the callback gives the dashboard
  fetched,      \* number of yf.download calls of the request
  provided,     \* what the provider answered: nothing yet, an error, or n rows
  sensed,       \* the readings the load sensor gave the request, in order
  stdout        \* the lines printed, in order

vars == <<pc, args, df, split, cpu_load, param_grid, searched, fitted, raised,
          out, fetched, provided, sensed, stdout>>

Requests == 1..NumRequests

NoArgs == [n_clicks |-> None, stock_code |-> NoneStr, forecast_days |-> None]
NoSplit == [train |-> <<>>, test |-> <<>>]
NoGrid == [C |-> {}, epsilon |-> {}, gamma |-> {}]
NoFit == [model |-> NoModel, mse |-> NoMetric, mae |-> NoMetric]
NotAsked == [asked |-> FALSE, failed |-> FALSE, rows |-> 0]
NoOut == [kind |-> "", message |-> "", mse |-> NoMetric, mae |-> NoMetric,
          figure |-> <<>>]

Init ==
  /\ pc = [r \in Requests |-> "idle"]
  /\ args = [r \in Requests |-> NoArgs]
  /\ df = [r \in Requests |-> <<>>]
  /\ split = [r \in Requests |-> NoSplit]
  /\ cpu_load = [r \in Requests |-> -1]
  /\ param_grid = [r \in Requests |-> NoGrid]
  /\ searched = [r \in Requests |-> {}]
  /\ fitted = [r \in Requests |-> NoFit]
  /\ raised = [r \in Requests |-> ""]
  /\ out = [r \in Requests |-> NoOut]
  /\ fetched = [r \in Requests |-> 0]
  /\ provided = [r \in Requests |-> NotAsked]
  /\ sensed = [r \in Requests |-> <<>>]
  /\ stdout = <<>>

\* What the dashboard can send: the button's click count, the ticker box and
\* the numeric "forecast-days" box (None when empty or not a number).
ClickValues == {None, Some(0), Some(1)}
TickerValues == {NoneStr, Some(""), Some("AAPL")}
HorizonValues == {None} \cup {Some(h) : h \in (-MaxHalves)..MaxHalves}
Inputs ==
  [n_clicks : ClickValues, stock_code : TickerValues, forecast_days : HorizonValues]

\* What the provider can answer: an error, or the bars of the last year.
StartDays == {19724, 19726}
Patterns == {1, 3}
Lengths == 0..MaxRows
Readings == {125, 800, 801, 950}

\* Line 192: the callback turns any exception of the import or of
\* train_svr_model into an error message.
ErrorDiv(e) == [NoOut EXCEPT !.kind = "ErrorDiv", !.message = e]

\* Lines 194-197: create_forecast runs outside the try; its exception leaves
\* the callback unhandled, otherwise metrics and figure are rendered together.
\* The metrics rendered although the forecast failed.
Render_partial(fit, forecast) ==
  [kind |-> "Rendered", message |-> forecast.raised, mse |-> fit.mse,
   mae |-> fit.mae, figure |-> forecast.value]

Render(fit, forecast) ==
  IF forecast.raised # ""
  THEN [NoOut EXCEPT !.kind = "Unhandled", !.message = forecast.raised]
  ELSE [kind |-> "Rendered", message |-> "", mse |-> fit.mse, mae |-> fit.mae,
        figure |-> forecast.value]

\* Line 186: the guard of the callback.
Invoke(r, inputs) ==
  /\ pc[r] = "idle"
  /\ \E a \in inputs :
       /\ args' = [args EXCEPT ![r] = a]
       /\ IF ~Truthy(a.n_clicks) \/ ~TruthyStr(a.stock_code)
             \/ ~Truthy(a.forecast_days)
          THEN /\ pc' = [pc EXCEPT ![r] = "done"]
               /\ out' = [out EXCEPT ![r] = [NoOut EXCEPT !.kind = "PreventUpdate"]]
          ELSE /\ pc' = [pc EXCEPT ![r] = "fetch"]
               /\ out' = out
  /\ UNCHANGED <<df, split, cpu_load, param_grid, searched, fitted, raised,
                 fetched, provided, sensed, stdout>>

\* Lines 20-22 with an empty answer or a provider error: the core raises, the
\* callback reports.
FetchFails(r, e) ==
  /\ raised' = [raised EXCEPT ![r] = e]
  /\ out' = [out EXCEPT ![r] = ErrorDiv(e)]
  /\ pc' = [pc EXCEPT ![r] = "done"]
  /\ UNCHANGED <<df, split>>

\* Lines 25-31: the frame, the ordinal feature and the split.
Prepare(r, bars) ==
  LET frame == [i \in 1..Len(bars) |->
                  [Date |-> bars[i].Date, Close |-> bars[i].Close,
                   Date_numeric |-> toordinal(bars[i].Date)]]
      cut == train_test_split(frame)
  IN /\ df' = [df EXCEPT ![r] = frame]
     /\ IF cut.raised # ""
        THEN /\ raised' = [raised EXCEPT ![r] = cut.raised]
             /\ out' = [out EXCEPT ![r] = ErrorDiv(cut.raised)]
             /\ pc' = [pc EXCEPT ![r] = "done"]
             /\ split' = split
        ELSE /\ split' = [split EXCEPT ![r] = cut.value]
             /\ pc' = [pc EXCEPT ![r] = "sense"]
             /\ UNCHANGED <<raised, out>>

\* The emptiness check left out.
IsEmpty_never(bars) == FALSE

\* Line 21: df.empty.
IsEmpty(bars) == Len(bars) = 0

\* Lines 20-37 of train_svr_model.
Fetch(r, lengths, patterns) ==
  /\ pc[r] = "fetch"
  /\ fetched' = [fetched EXCEPT ![r] = @ + 1]
  /\ \/ /\ provided' = [provided EXCEPT ![r] = [NotAsked EXCEPT !.asked = TRUE,
                                                                !.failed = TRUE]]
        /\ FetchFails(r, "UpstreamError")
     \/ \E s \in StartDays, n \in lengths, p \in patterns :
          LET bars == Bars(s, n, p)
          IN /\ provided' = [provided EXCEPT ![r] =
                               [asked |-> TRUE, failed |-> FALSE, rows |-> Len(bars)]]
             /\ IF IsEmpty(bars)
                THEN FetchFails(r, "ValueError:No data available")
                ELSE Prepare(r, bars)
  /\ UNCHANGED <<args, cpu_load, param_grid, searched, fitted, sensed, stdout>>

\* A reading kept at module level and reused once some request has one.
SampleLoad_cached(r, reading) ==
  IF \E q \in Requests : q # r /\ cpu_load[q] >= 0
  THEN cpu_load[CHOOSE q \in Requests : q # r /\ cpu_load[q] >= 0]
  ELSE reading

\* The reading train_svr_model works with: the one the sensor just gave it.
SampleLoad(r, reading) == reading

\* Lines 40-53: one blocking sensor query, the print, the choice of the grid.
Sense(r, readings) ==
  /\ pc[r] = "sense"
  /\ \E reading \in readings :
       LET load == SampleLoad(r, reading)
       IN /\ sensed' = [sensed EXCEPT ![r] = Append(@, reading)]
          /\ cpu_load' = [cpu_load EXCEPT ![r] = load]
          /\ stdout' = Append(stdout, load)
          /\ param_grid' = [param_grid EXCEPT ![r] = SelectGrid(load)]
  /\ pc' = [pc EXCEPT ![r] = "search"]
  /\ UNCHANGED <<args, df, split, searched, fitted, raised, out, fetched,
                 provided>>

\* Lines 55-64: the search, the evaluation and the return to the callback.
Search(r, picks, slopes) ==
  /\ pc[r] = "search"
  /\ \E res \in GridSearchCV_fit(param_grid[r], split[r].train) :
       IF res.raised # ""
       THEN /\ raised' = [raised EXCEPT ![r] = res.raised]
            /\ out' = [out EXCEPT ![r] = ErrorDiv(res.raised)]
            /\ pc' = [pc EXCEPT ![r] = "done"]
            /\ UNCHANGED <<searched, fitted>>
       ELSE /\ res.value.params \in picks
            /\ res.value.slope \in slopes
            /\ searched' = [searched EXCEPT ![r] = ParameterGrid(param_grid[r])]
            /\ fitted' = [fitted EXCEPT ![r] =
                            LET m == Evaluate(res.value, split[r].test)
                            IN [model |-> res.value, mse |-> m.mse, mae |-> m.mae]]
            /\ pc' = [pc EXCEPT ![r] = "forecast"]
            /\ UNCHANGED <<raised, out>>
  /\ UNCHANGED <<args, df, split, cpu_load, param_grid, fetched, provided,
                 sensed, stdout>>

\* Lines 194-197 of forecast_stock: create_forecast and the rendering.
Forecast(r) ==
  /\ pc[r] = "forecast"
  /\ LET call == create_forecast(fitted[r].model, df[r],
                                 IntOf(args[r].forecast_days.v))
     IN /\ df' = [df EXCEPT ![r] = call.df]
        /\ fitted' = [fitted EXCEPT ![r].model = call.model]
        /\ fetched' = [fetched EXCEPT ![r] = @ + call.fetched]
        /\ sensed' = [sensed EXCEPT ![r] = @ \o [i \in 1..call.sensed |-> 0]]
        /\ raised' = [raised EXCEPT ![r] = call.ret.raised]
        /\ out' = [out EXCEPT ![r] = Render(fitted[r], call.ret)]
  /\ pc' = [pc EXCEPT ![r] = "done"]
  /\ UNCHANGED <<args, split, cpu_load, param_grid, searched, provided, stdout>>

\* One request at a time, every input.
Next ==
  \E r \in {1} :
    \/ Invoke(r, Inputs)
    \/ Fetch(r, Lengths, Patterns)
    \/ Sense(r, Readings)
    \/ Search(r, ParameterGrid(FullGrid), Slopes)
    \/ Forecast(r)

Spec == Init /\ [][Next]_vars

\* Requests served concurrently (the server runs callbacks in threads): the
\* steps of the requests interleave; fewer inputs per request.
ConcInputs ==
  {[n_clicks |-> Some(1), stock_code |-> Some("AAPL"), forecast_days |-> d] :
     d \in {None, Some(-2), Some(2)}}
ConcLengths == {0, MaxRows - 1}
ConcReadings == {800, 801}
ConcPicks == {[C |-> "1", epsilon |-> "0.1", gamma |-> "scale"]}

NextConc ==
  \E r \in Requests :
    \/ Invoke(r, ConcInputs)
    \/ Fetch(r, ConcLengths, {1})
    \/ Sense(r, ConcReadings)
    \/ Search(r, ConcPicks, {0})
    \/ Forecast(r)

SpecConc == Init /\ [][NextConc]_vars

------------------------------------------------------------------------------
\* Properties.

Horizon(r) == IntOf(args[r].forecast_days.v)
LastDate(r) == df[r][Len(df[r])].Date
Extrapolated(r) == pc[r] = "done" /\ fitted[r].model.fitted

\* C1: for a fitted model, a non-empty history and a positive integer horizon,
\* create_forecast returns exactly horizon entries, one predicted price per
\* date (the model's prediction for that date's ordinal), on consecutive
\* calendar days, the first being the day after the last date of the history.
C1_ForecastShape ==
  \A r \in Requests :
    (Extrapolated(r) /\ Horizon(r) >= 1) =>
      /\ out[r].kind = "Rendered"
      /\ Len(out[r].figure) = Horizon(r)
      /\ out[r].figure[1].Date = LastDate(r) + 1
      /\ \A i \in 1..(Horizon(r) - 1) :
           out[r].figure[i + 1].Date = out[r].figure[i].Date + 1
      /\ \A i \in 1..Horizon(r) :
           out[r].figure[i].Predicted =
             PredictAt(fitted[r].model, toordinal(out[r].figure[i].Date))

\* A two-day forecast after a Friday: Saturday and Sunday are forecast dates.
C1_Witness ==
  \E r \in Requests :
    /\ Extrapolated(r) /\ Horizon(r) = 2 /\ out[r].kind = "Rendered"
    /\ weekday(LastDate(r)) = 4
    /\ weekday(out[r].figure[1].Date) = 5 /\ weekday(out[r].figure[2].Date) = 6

\* C2: when the provider answers with an empty series, train_svr_model raises
\* its no-data error to the callback: no model, no metrics, no history frame,
\* no sensor query, and the callback reports that error.
C2_NoData ==
  \A r \in Requests :
    (provided[r].asked /\ ~provided[r].failed /\ provided[r].rows = 0) =>
      /\ pc[r] = "done"
      /\ raised[r] = "ValueError:No data available"
      /\ fitted[r] = NoFit /\ df[r] = <<>> /\ split[r] = NoSplit
      /\ sensed[r] = <<>> /\ searched[r] = {}
      /\ out[r] = ErrorDiv("ValueError:No data available")

C2_Witness ==
  \E r \in Requests :
    /\ provided[r].asked /\ ~provided[r].failed /\ provided[r].rows = 0
    /\ out[r].kind = "ErrorDiv"

\* C3: for a horizon that is 0 or negative, create_forecast fails with an
\* invalid-horizon error and returns no forecast series.
C3_InvalidHorizonError ==
  \A r \in Requests :
    (Extrapolated(r) /\ Horizon(r) <= 0) =>
      /\ raised[r] = "InvalidHorizonError"
      /\ out[r].figure = <<>>

\* C4: the grid of a fit is decided by that fit's reading alone: above 80% the
\* reduced grid of 8 combinations, otherwise (80% included) the full grid of
\* 80 combinations, and the search evaluates exactly the combinations of it.
C4_Reduced ==
  [C : {"1", "10"}, epsilon : {"0.1", "0.5"}, gamma : {"scale", "0.1"}]
C4_Full ==
  [C : {"0.1", "1", "10", "100"}, epsilon : {"0.01", "0.1", "0.5", "1"},
   gamma : {"scale", "auto", "0.01", "0.1", "1"}]

C4_GridByLoad ==
  \A r \in Requests :
    /\ Len(sensed[r]) >= 1 =>
         ParameterGrid(param_grid[r]) =
           IF sensed[r][1] > 800 THEN C4_Reduced ELSE C4_Full
    /\ fitted[r].model.fitted =>
         /\ searched[r] = IF sensed[r][1] > 800 THEN C4_Reduced ELSE C4_Full
         /\ Cardinality(searched[r]) = IF sensed[r][1] > 800 THEN 8 ELSE 80
         /\ fitted[r].model.params \in searched[r]
    /\ ~fitted[r].model.fitted => searched[r] = {}

\* A fit at exactly 80% that searched the 80 combinations.
C4_Witness ==
  \E r \in Requests :
    /\ fitted[r].model.fitted /\ sensed[r] = <<800>>
    /\ Cardinality(searched[r]) = 80

\* C5: a series of N >= 2 rows is cut, in its original order, into a leading
\* training segment and a trailing test segment of ceil(N/10) rows: train
\* followed by test is the series itself (disjoint, covering, every training
\* row before every test row), and the cut is fixed by the series alone.
C5_ChronologicalSplit ==
  \A r \in Requests :
    (provided[r].asked /\ ~provided[r].failed /\ provided[r].rows >= 2) =>
      LET n == Len(df[r])
          k == Len(split[r].test)
      IN /\ n = provided[r].rows
         /\ split[r].train \o split[r].test = df[r]
         /\ k >= 1 /\ 10 * k >= n /\ 10 * (k - 1) < n
         /\ Len(split[r].train) = n - k
         /\ \A i \in 1..(n - 1) : df[r][i].Date_numeric < df[r][i + 1].Date_numeric
         /\ \A i \in 1..Len(split[r].train), j \in 1..k :
              split[r].train[i].Date_numeric < split[r].test[j].Date_numeric

\* Eleven rows: nine for training, the last two held out.
C5_Witness ==
  \E r \in Requests :
    /\ Len(df[r]) = 11 /\ Len(split[r].train) = 9 /\ Len(split[r].test) = 2
    /\ split[r].test[2] = df[r][11]

\* C6: a finished request either rendered metrics and forecast together, from
\* a fitted model, or surfaced a failure and rendered neither; when the fit
\* itself failed no model and no metrics came back from it.
C6_AllOrNothing ==
  \A r \in Requests :
    pc[r] = "done" =>
      /\ out[r].kind \in {"PreventUpdate", "ErrorDiv", "Unhandled", "Rendered"}
      /\ out[r].kind = "Rendered" =>
           /\ raised[r] = "" /\ fitted[r].model.fitted
           /\ out[r].mse = fitted[r].mse /\ out[r].mae = fitted[r].mae
           /\ out[r].mse.den >= 1
           /\ Len(out[r].figure) >= 1
      /\ out[r].kind \in {"ErrorDiv", "Unhandled"} =>
           /\ raised[r] # "" /\ out[r].message = raised[r]
           /\ out[r].mse = NoMetric /\ out[r].mae = NoMetric
           /\ out[r].figure = <<>>
      /\ out[r].kind = "ErrorDiv" => fitted[r] = NoFit
      /\ out[r].kind = "PreventUpdate" =>
           raised[r] = "" /\ fitted[r] = NoFit /\ out[r].figure = <<>>

\* The extrapolation failed after a successful fit: nothing is rendered.
C6_Witness ==
  \E r \in Requests :
    /\ pc[r] = "done" /\ fitted[r].model.fitted
    /\ out[r].kind = "Unhandled" /\ out[r].figure = <<>>

\* C7: a request whose horizon is missing or not positive never fetches,
\* never queries the load sensor and never searches a grid.
C7_NoWorkOnInvalidHorizon ==
  \A r \in Requests :
    (pc[r] # "idle"
       /\ (args[r].forecast_days.none \/ args[r].forecast_days.v <= 0)) =>
      /\ fetched[r] = 0 /\ sensed[r] = <<>> /\ searched[r] = {}

\* C8: under every interleaving each fit queries the sensor itself exactly
\* once and works with that reading; its grid, model, metrics and result are
\* those its own data and reading give; a step of one request leaves every
\* other request's frame as it was.
C8_OwnState ==
  \A r \in Requests :
    /\ pc[r] \in {"idle", "fetch", "sense"} => sensed[r] = <<>> /\ cpu_load[r] = -1
    /\ pc[r] \in {"search", "forecast"} \/ fitted[r].model.fitted =>
         /\ Len(sensed[r]) = 1 /\ cpu_load[r] = sensed[r][1]
         /\ param_grid[r] = IF sensed[r][1] > 800 THEN ReducedGrid ELSE FullGrid
    /\ fitted[r].model.fitted =>
         /\ searched[r] = ParameterGrid(param_grid[r])
         /\ fitted[r].model.x0 = df[r][1].Date_numeric
         /\ fitted[r].model.level = df[r][1].Close
    /\ out[r].kind = "Rendered" =>
         /\ out[r].mse = fitted[r].mse
         /\ out[r].figure[1].Date = LastDate(r) + 1
         /\ Len(out[r].figure) = Horizon(r)

Frame(r) ==
  <<pc[r], args[r], df[r], split[r], cpu_load[r], param_grid[r], searched[r],
    fitted[r], raised[r], out[r], fetched[r], provided[r], sensed[r]>>

C8_Isolated ==
  [][\A r \in Requests : pc'[r] = pc[r] => Frame(r)' = Frame(r)]_vars

\* C8: concurrent requests are isolated: C8_OwnState holds in every state and
\* every step keeps to the frame of the request that takes it.
C8_Isolation == []C8_OwnState /\ C8_Isolated

\* Two fits that overlapped in time and got different readings, each with
\* the grid of its own reading.
C8_Witness ==
  \E r, q \in Requests :
    /\ r # q /\ fitted[r].model.fitted /\ fitted[q].model.fitted
    /\ sensed[r] = <<800>> /\ sensed[q] = <<801>>
    /\ stdout[1] = 801
    /\ param_grid[r] = FullGrid /\ param_grid[q] = ReducedGrid

\* C9: a series of N >= 10 rows is fitted without a failure of the split or
\* of the 5-fold search (the training segment has at least 5 rows, the test
\* segment at least one), and the metrics are means over the test rows that
\* are not negative.
C9_FitSucceeds ==
  \A r \in Requests :
    (provided[r].asked /\ ~provided[r].failed /\ provided[r].rows >= 10) =>
      /\ raised[r] \notin {"ValueError:split", "ValueError:cv",
                           "ValueError:No data available", "UpstreamError"}
      /\ Len(split[r].train) >= CvFolds /\ Len(split[r].test) >= 1
      /\ pc[r] \in {"forecast", "done"} =>
           /\ fitted[r].model.fitted
           /\ fitted[r].mse.den = Len(split[r].test)
           /\ fitted[r].mae.den = Len(split[r].test)
           /\ fitted[r].mse.num >= 0 /\ fitted[r].mae.num >= 0
           /\ fitted[r].mae.num * fitted[r].mae.num
                <= fitted[r].mse.num * fitted[r].mse.den

\* Ten rows, nine of them for the five folds, and a model that misses.
C9_Witness ==
  \E r \in Requests :
    /\ provided[r].rows = 10 /\ pc[r] = "forecast"
    /\ fitted[r].model.fitted /\ fitted[r].mae.num > 0

\* C10: create_forecast leaves the model and the history frame as they were
\* and neither fetches nor queries the sensor; a fit fetches once, queries
\* the sensor once, prints that reading, and touches nothing of the
\* callback's arguments or of any other request.
C10_FitEffects ==
  \A r \in Requests :
    /\ fetched[r] = IF provided[r].asked THEN 1 ELSE 0
    /\ Len(sensed[r]) = IF cpu_load[r] >= 0 THEN 1 ELSE 0
    /\ Len(stdout) = Cardinality({q \in Requests : cpu_load[q] >= 0})

C10_ForecastFrame ==
  \A r \in Requests :
    (pc[r] = "forecast" /\ pc'[r] = "done") =>
      /\ df'[r] = df[r] /\ fitted'[r] = fitted[r] /\ split'[r] = split[r]
      /\ fetched' = fetched /\ sensed' = sensed /\ stdout' = stdout
      /\ provided' = provided /\ args' = args

C10_FitFrame ==
  \A r \in Requests :
    (pc[r] \in {"fetch", "sense", "search"} /\ pc'[r] # pc[r]) =>
      /\ args' = args
      /\ \A q \in Requests : q # r => Frame(q)' = Frame(q)
      /\ stdout' = IF pc[r] = "sense" THEN Append(stdout, sensed'[r][1])
                   ELSE stdout

====
